---- MODULE Spec2Model ----
(***************************************************************************)
(* A model of jdupes-sidecar.py: the directory-priority orderer            *)
(* (get_directory_ordered_files) and the per-group resolution loop of      *)
(* main(), with the filesystem it reads and mutates.                       *)
(*                                                                         *)
(* Paths.  A raw path, as the scanner or the command line gives it, is a   *)
(* record [abs, parts]: parts are the tokens between separators ("" for a  *)
(* doubled or trailing separator, "." and ".." as written).  A normalized  *)
(* path is the sequence of its components below the root; the root is <<>>.*)
(* Paths that start with exactly two separators, which normpath keeps, are *)
(* not part of the universes.                                              *)
(*                                                                         *)
(* Filesystem.  files is the set of data files that exist.  sidecars maps  *)
(* each data-file path p whose sidecar p + sidecar_extension exists to the *)
(* lines of that sidecar.  The scanner is run with the sidecar extension   *)
(* filtered out (line 121), so no group member is itself a sidecar, and    *)
(* sidecars hold whole, newline-terminated lines as line 278 writes them.  *)
(***************************************************************************)
EXTENDS Naturals, Sequences, FiniteSets

VARIABLES
    pc,                           \* position in main()
    dry_run,                      \* args.dry_run
    no_merge_existing_sidecars,   \* args.no_merge_existing_sidecars
    no_delete_duplicate_sidecar,  \* args.no_delete_duplicate_sidecar
    directories,                  \* args.directories, raw
    total_duplicates,             \* len(matchSets)
    gi,                           \* groups of the report consumed so far
    file_list,                    \* the current group's raw paths
    files_in_order,               \* the orderer's output for the current group
    j,                            \* index into delete_files of the running loop
    sidecar_contents,             \* lines collected for the survivor's sidecar
    files,                        \* data files on disk
    sidecars,                     \* sidecar files on disk: path |-> lines
    report_lines,                 \* the dry-run transcript
    outfile,                      \* the report destination: <<>> or <<lines>>
    faults,                       \* I/O failures injected so far
    touched,                      \* a mutating filesystem call has been made
    ops,                          \* the filesystem calls of the last step
    removed,                      \* paths given to os.remove in the current group
    entries_read,                 \* fileList entries of the report read so far
    pre                           \* the disk, transcript length and fault count
                                  \* when the current group was begun

vars == <<pc, dry_run, no_merge_existing_sidecars, no_delete_duplicate_sidecar,
          directories, total_duplicates, gi, file_list, files_in_order, j,
          sidecar_contents, files, sidecars, report_lines, outfile, faults,
          touched, ops, removed, entries_read, pre>>

---------------------------------------------------------------------------
(* Bounds *)

MaxFiles == 3
MaxDirs == 2
MaxGroups == 2
MaxEntries == 4
MaxFaults == 1

---------------------------------------------------------------------------
(* Paths and their normalization *)

Abs(parts) == [abs |-> TRUE, parts |-> parts]
Rel(parts) == [abs |-> FALSE, parts |-> parts]

\* os.getcwd(), which os.path.abspath joins a relative path to
Cwd == <<"d">>

RECURSIVE NormAcc(_, _)
NormAcc(todo, acc) ==
    IF todo = <<>> THEN acc
    ELSE LET t == Head(todo)
         IN  NormAcc(Tail(todo),
                     IF t \in {"", "."} THEN acc
                     ELSE IF t = ".."
                          THEN (IF acc = <<>> THEN <<>>
                                ELSE SubSeq(acc, 1, Len(acc) - 1))
                          ELSE Append(acc, t))

\* os.path.normpath(os.path.abspath(p))
NormAbs(raw) == NormAcc(IF raw.abs THEN raw.parts ELSE Cwd \o raw.parts, <<>>)

\* f.startswith(directory + os.path.sep), on normalized paths: the root
\* directory "/" gives the prefix "//", which no normalized path has.
StartsWithDirSep(f, directory) ==
    /\ directory # <<>>
    /\ Len(f) > Len(directory)
    /\ SubSeq(f, 1, Len(directory)) = directory

InSeq(x, s) == \E i \in 1..Len(s) : s[i] = x

Range(s) == {s[i] : i \in 1..Len(s)}

SeqsUpTo(S, n) == UNION {[1..k -> S] : k \in 0..n}

---------------------------------------------------------------------------
(* get_directory_ordered_files *)

\* dir_files = [f for f in normalized_file_list if f.startswith(...)]
DirFilesReversed(normalized_file_list, directory) ==
    LET sel == SelectSeq(normalized_file_list,
                         LAMBDA f : StartsWithDirSep(f, directory))
    IN  [i \in 1..Len(sel) |-> sel[Len(sel) + 1 - i]]

DirFiles(normalized_file_list, directory) ==
    SelectSeq(normalized_file_list, LAMBDA f : StartsWithDirSep(f, directory))

\* for directory in directories: files_in_order.extend(dir_files)
RECURSIVE ExtendLastFirst(_, _)
ExtendLastFirst(normalized_file_list, dirs) ==
    IF dirs = <<>> THEN <<>>
    ELSE ExtendLastFirst(normalized_file_list, Tail(dirs))
             \o DirFiles(normalized_file_list, Head(dirs))

RECURSIVE ExtendByDirectory(_, _)
ExtendByDirectory(normalized_file_list, dirs) ==
    IF dirs = <<>> THEN <<>>
    ELSE DirFiles(normalized_file_list, Head(dirs))
             \o ExtendByDirectory(normalized_file_list, Tail(dirs))

\* remaining_files = [f for f in normalized_file_list if f not in files_in_order]
RemainingFiles(normalized_file_list, in_order) ==
    SelectSeq(normalized_file_list, LAMBDA f : ~InSeq(f, in_order))

get_directory_ordered_files(fl, dirs) ==
    LET ndirs == [i \in 1..Len(dirs) |-> NormAbs(dirs[i])]
        normalized_file_list == [i \in 1..Len(fl) |-> NormAbs(fl[i])]
        in_order == ExtendByDirectory(normalized_file_list, ndirs)
    IN  in_order \o RemainingFiles(normalized_file_list, in_order)

---------------------------------------------------------------------------
(* Universes of the inputs *)

\* Raw paths the orderer is applied to on its own: two files in one
\* directory, one in a sibling, one outside every directory, and two other
\* spellings (a ".." detour, a relative path) of files already listed.
OrderFiles ==
    { Abs(<<"d", "a", "f">>), Abs(<<"d", "a", "g">>), Abs(<<"d", "b", "f">>),
      Abs(<<"e", "h">>), Abs(<<"d", "b", "..", "a", "f">>), Rel(<<"a", "g">>) }

\* Raw priority directories: a directory, two directories nested in it
\* (one also written with a trailing separator and one relative), the root.
OrderDirs ==
    { Abs(<<"d">>), Abs(<<"d", "a">>), Abs(<<"d", "b">>), Abs(<<>>),
      Abs(<<"d", "a", "">>), Rel(<<"b">>) }

\* Raw paths of the scanner's report in a run of main()
GroupFiles ==
    { Abs(<<"d", "a", "f">>), Abs(<<"d", "b", "g">>), Abs(<<"e", "h">>) }

\* Priority directories given to a run of main()
MainDirs == { Abs(<<"d">>), Abs(<<"d", "a">>) }

\* The data files of the modelled filesystem
DataPaths == {NormAbs(r) : r \in GroupFiles}

\* The lines of a sidecar that exists before the run
OldLines(p) == << <<"old1">> \o p, <<"old2">> \o p >>

\* One fileList entry of the report: filePath holds the path, or nothing
\* when the entry lacks the key.
Entry(raw) == [filePath |-> <<raw>>]
NoFilePath == [filePath |-> <<>>]
Entries == {Entry(r) : r \in GroupFiles} \cup {NoFilePath}

---------------------------------------------------------------------------
(* The orderer on its own *)

InitIdle ==
    /\ dry_run = FALSE
    /\ no_merge_existing_sidecars = FALSE
    /\ no_delete_duplicate_sidecar = FALSE
    /\ total_duplicates = 0
    /\ gi = 0
    /\ j = 0
    /\ sidecar_contents = <<>>
    /\ files = {}
    /\ sidecars = <<>>
    /\ report_lines = <<>>
    /\ outfile = <<>>
    /\ faults = 0
    /\ touched = FALSE
    /\ ops = <<>>
    /\ removed = <<>>
    /\ entries_read = 0
    /\ pre = [files |-> {}, sidecars |-> <<>>, lines |-> 0, faults |-> 0]

InitOrder ==
    /\ pc = "order"
    /\ directories \in SeqsUpTo(OrderDirs, MaxDirs) \ {<<>>}
    /\ file_list \in SeqsUpTo(OrderFiles, MaxFiles)
    /\ files_in_order = <<>>
    /\ InitIdle

ApplyOrder ==
    /\ pc = "order"
    /\ files_in_order' = get_directory_ordered_files(file_list, directories)
    /\ pc' = "ordered"
    /\ UNCHANGED <<dry_run, no_merge_existing_sidecars,
                   no_delete_duplicate_sidecar, directories, total_duplicates,
                   gi, file_list, j, sidecar_contents, files, sidecars,
                   report_lines, outfile, faults, touched, ops,
                   removed, pre, entries_read>>

NextOrder == ApplyOrder

SpecOrder == InitOrder /\ [][NextOrder]_vars

---------------------------------------------------------------------------
(* main(): the state its steps read *)

\* keep_file = files_in_order[0]; delete_files = files_in_order[1:]
keep_file == files_in_order[1]
delete_files == Tail(files_in_order)

\* os.path.exists(p + sidecar_extension)
SidecarExists(p) == p \in DOMAIN sidecars

Op(kind, path, result) == [op |-> kind, path |-> path, result |-> result]

Line(kind, path) == [kind |-> kind, path |-> path]

CanFail == faults < MaxFaults

Snapshot ==
    [files |-> files, sidecars |-> sidecars, lines |-> Len(report_lines),
     faults |-> faults]

Init ==
    /\ pc = "start"
    /\ dry_run \in BOOLEAN
    /\ no_merge_existing_sidecars \in BOOLEAN
    /\ no_delete_duplicate_sidecar \in BOOLEAN
    /\ directories \in SeqsUpTo(MainDirs, MaxDirs) \ {<<>>}
    /\ total_duplicates = 0
    /\ gi = 0
    /\ file_list = <<>>
    /\ files_in_order = <<>>
    /\ j = 0
    /\ sidecar_contents = <<>>
    /\ files = DataPaths
    /\ \E S \in SUBSET DataPaths : sidecars = [p \in S |-> OldLines(p)]
    /\ report_lines = <<>>
    /\ outfile = <<>>
    /\ faults = 0
    /\ touched = FALSE
    /\ ops = <<>>
    /\ removed = <<>>
    /\ entries_read = 0
    /\ pre = Snapshot

\* Lines 100-112: announce the mode; a normal run asks for confirmation and
\* exits with status 0 unless the answer is y or yes.
Start ==
    /\ pc = "start"
    /\ \/ pc' = "scan"
       \/ ~dry_run /\ pc' = "exit0"
    /\ ops' = <<>>
    /\ UNCHANGED <<dry_run, no_merge_existing_sidecars,
                   no_delete_duplicate_sidecar, directories, total_duplicates,
                   gi, file_list, files_in_order, j, sidecar_contents, files,
                   sidecars, report_lines, outfile, faults, touched,
                   removed, pre, entries_read>>

\* Lines 139-183: run the scanner to completion and parse its report.
\* Popen failing, a non-zero exit status and undecodable JSON each end the
\* run with sys.exit(1); a JSON value that is not an object makes
\* duplicates.get raise, uncaught, at line 174.
RunScanner ==
    /\ pc = "scan"
    /\ \/ /\ pc' = "exit1"
          /\ UNCHANGED total_duplicates
       \/ /\ pc' = "crashed"
          /\ UNCHANGED total_duplicates
       \/ /\ pc' = "loop"
          /\ total_duplicates' \in 0..MaxGroups
    /\ ops' = <<>>
    /\ UNCHANGED <<dry_run, no_merge_existing_sidecars,
                   no_delete_duplicate_sidecar, directories, gi, file_list,
                   files_in_order, j, sidecar_contents, files, sidecars,
                   report_lines, outfile, faults, touched,
                   removed, pre, entries_read>>

---------------------------------------------------------------------------
(* main(): the loop over the report's groups, lines 185-285 *)

\* The groups the report may hold next: up to MaxFiles fileList entries
\* each, and up to MaxEntries in the whole report
DupeSets ==
    {g \in SeqsUpTo(Entries, MaxFiles) : entries_read + Len(g) <= MaxEntries}

\* An entry without the key makes file_info['filePath'] raise KeyError
HasKeyError(dupe_set) == \E i \in 1..Len(dupe_set) : dupe_set[i].filePath = <<>>

\* file_list = [file_info['filePath'] for file_info in fileList]
FileList(dupe_set) == [i \in 1..Len(dupe_set) |-> dupe_set[i].filePath[1]]

\* Line 187 raises KeyError, which nothing catches: the run ends there.
CrashOnEntry ==
    /\ pc = "loop"
    /\ gi < total_duplicates
    /\ \E dupe_set \in DupeSets : HasKeyError(dupe_set)
    /\ pc' = "crashed"
    /\ ops' = <<>>
    /\ UNCHANGED <<dry_run, no_merge_existing_sidecars,
                   no_delete_duplicate_sidecar, directories, total_duplicates,
                   gi, file_list, files_in_order, j, sidecar_contents, files,
                   sidecars, report_lines, outfile, faults, touched,
                   removed, pre, entries_read>>

\* Lines 190-191: if not files_in_order: continue
SkipEmptyGroup ==
    /\ pc = "loop"
    /\ gi < total_duplicates
    /\ \E dupe_set \in DupeSets :
          /\ ~HasKeyError(dupe_set)
          /\ entries_read' = entries_read + Len(dupe_set)
          /\ file_list' = FileList(dupe_set)
          /\ files_in_order' =
                 get_directory_ordered_files(file_list', directories)
          /\ files_in_order' = <<>>
    /\ gi' = gi + 1
    /\ ops' = <<>>
    /\ pre' = Snapshot
    /\ UNCHANGED <<pc, dry_run, no_merge_existing_sidecars,
                   no_delete_duplicate_sidecar, directories, total_duplicates,
                   j, sidecar_contents, files, sidecars, report_lines, outfile,
                   faults, touched,
                   removed>>

\* Lines 205-221 over delete files dfs from index k on; the read of the
\* victim sidecar of dfs[i] fails for i in failing.  acc holds the report
\* lines and the sidecar contents collected so far.
RECURSIVE DryCollect(_, _, _, _)
DryCollect(dfs, k, failing, acc) ==
    IF k > Len(dfs) THEN acc
    ELSE LET deleted_file == dfs[k]
             merging == /\ ~no_merge_existing_sidecars
                        /\ SidecarExists(deleted_file)
             read_ok == merging /\ k \notin failing
             lines ==
                 IF merging
                 THEN <<Line("would_merge", deleted_file)>>
                      \o (IF read_ok THEN <<>>
                          ELSE <<Line("read_error", deleted_file)>>)
                      \o (IF ~no_delete_duplicate_sidecar
                          THEN <<Line("would_delete_sidecar", deleted_file)>>
                          ELSE <<Line("would_not_delete_sidecar", deleted_file)>>)
                 ELSE <<>>
             rd == IF merging
                   THEN <<Op("read", deleted_file,
                             IF read_ok THEN "ok" ELSE "error")>>
                   ELSE <<>>
         IN  DryCollect(dfs, k + 1, failing,
                 [lines |-> acc.lines \o lines,
                  contents |-> Append(acc.contents, deleted_file)
                                  \o (IF read_ok THEN sidecars[deleted_file]
                                      ELSE <<>>),
                  ops |-> acc.ops \o rd])

\* Lines 196-226: the dry-run branch for one group.
DryRunLinesAllListed(fio, failing) ==
    LET dfs == Tail(fio)
        got == DryCollect(dfs, 1, failing,
                          [lines |-> <<>>, contents |-> <<>>, ops |-> <<>>])
    IN  [lines |-> <<Line("would_keep", fio[1])>>
                   \o [i \in 1..Len(fio) |-> Line("would_delete", fio[i])]
                   \o got.lines
                   \o <<Line("would_create", fio[1])>>
                   \o [i \in 1..Len(got.contents) |->
                          Line("content", got.contents[i])]
                   \o <<Line("blank", <<>>)>>,
         ops |-> got.ops]

DryRunLines(fio, failing) ==
    LET dfs == Tail(fio)
        got == DryCollect(dfs, 1, failing,
                          [lines |-> <<>>, contents |-> <<>>, ops |-> <<>>])
    IN  [lines |-> <<Line("would_keep", fio[1])>>
                   \o [i \in 1..Len(dfs) |-> Line("would_delete", dfs[i])]
                   \o got.lines
                   \o <<Line("would_create", fio[1])>>
                   \o [i \in 1..Len(got.contents) |->
                          Line("content", got.contents[i])]
                   \o <<Line("blank", <<>>)>>,
         ops |-> got.ops]

DryRunGroup ==
    /\ pc = "loop"
    /\ gi < total_duplicates
    /\ dry_run
    /\ \E dupe_set \in DupeSets :
          /\ ~HasKeyError(dupe_set)
          /\ entries_read' = entries_read + Len(dupe_set)
          /\ file_list' = FileList(dupe_set)
          /\ files_in_order' =
                 get_directory_ordered_files(file_list', directories)
          /\ files_in_order' # <<>>
    /\ \E failing \in SUBSET (1..(Len(files_in_order') - 1)) :
          /\ \A k \in failing :
                /\ ~no_merge_existing_sidecars
                /\ SidecarExists(files_in_order'[k + 1])
          /\ faults' = faults + Cardinality(failing)
          /\ faults' <= MaxFaults
          /\ LET out == DryRunLines(files_in_order', failing)
             IN  /\ report_lines' = report_lines \o out.lines
                 /\ ops' = out.ops
    /\ gi' = gi + 1
    /\ pre' = Snapshot
    /\ UNCHANGED <<pc, dry_run, no_merge_existing_sidecars,
                   no_delete_duplicate_sidecar, directories, total_duplicates,
                   j, sidecar_contents, files, sidecars, outfile, touched,
                   removed>>

\* Lines 196 and 227: if dry_run: ... else: the branch that mutates the disk
EveryRun == TRUE

NormalRun == ~dry_run

\* Lines 193-194 and 227: a normal run enters the deletion loop of the group
\* (or, with an empty delete list, goes on to line 240).
BeginResolve ==
    /\ pc = "loop"
    /\ gi < total_duplicates
    /\ NormalRun
    /\ \E dupe_set \in DupeSets :
          /\ ~HasKeyError(dupe_set)
          /\ entries_read' = entries_read + Len(dupe_set)
          /\ file_list' = FileList(dupe_set)
          /\ files_in_order' =
                 get_directory_ordered_files(file_list', directories)
          /\ files_in_order' # <<>>
    /\ IF Len(files_in_order') > 1
       THEN pc' = "delete" /\ j' = 1
       ELSE pc' = "write" /\ j' = 0
    /\ sidecar_contents' = <<>>
    /\ ops' = <<>>
    /\ removed' = <<>>
    /\ pre' = Snapshot
    /\ UNCHANGED <<dry_run, no_merge_existing_sidecars,
                   no_delete_duplicate_sidecar, directories, total_duplicates,
                   gi, files, sidecars, report_lines, outfile, faults, touched>>

\* files after os.remove(f) has succeeded
WithoutAnyFile(f) == {}

WithoutFile(f) == files \ {f}

\* Lines 229-238: os.remove(f) for one delete file; every exception is
\* caught and logged, and the loop goes on.
DeleteStep ==
    /\ pc = "delete"
    /\ LET f == delete_files[j]
       IN  \/ /\ f \in files
              /\ files' = WithoutFile(f)
              /\ ops' = <<Op("remove", f, "ok")>>
              /\ UNCHANGED faults
           \/ /\ f \notin files
              /\ ops' = <<Op("remove", f, "file_not_found")>>
              /\ UNCHANGED <<files, faults>>
           \/ /\ f \in files
              /\ CanFail
              /\ \E e \in {"permission_denied", "os_error"} :
                    ops' = <<Op("remove", f, e)>>
              /\ faults' = faults + 1
              /\ UNCHANGED files
    /\ removed' = Append(removed, delete_files[j])
    /\ touched' = TRUE
    /\ IF j < Len(delete_files)
       THEN pc' = "delete" /\ j' = j + 1
       ELSE pc' = "collect" /\ j' = 1
    /\ UNCHANGED <<dry_run, no_merge_existing_sidecars,
                   no_delete_duplicate_sidecar, directories, total_duplicates,
                   gi, file_list, files_in_order, sidecar_contents, sidecars,
                   report_lines, outfile,
                   pre, entries_read>>

\* sidecars without the sidecar of p
WithSidecarKept(p) == sidecars

WithoutSidecar(p) == [q \in DOMAIN sidecars \ {p} |-> sidecars[q]]

\* Line 245: sidecar_contents.append(deleted_file)
RecordedIfGone(contents, deleted_file) ==
    IF deleted_file \in files THEN contents ELSE Append(contents, deleted_file)

Recorded(contents, deleted_file) == Append(contents, deleted_file)

\* Lines 251-256: existing_contents, the lines read from the victim's
\* sidecar; nothing when merging is off, the sidecar is absent or the read
\* raises.
ReadLinesAnyway(deleted_file, merging, read_ok) ==
    IF merging THEN sidecars[deleted_file] ELSE <<>>

ReadNothing(deleted_file, merging, read_ok) == <<>>

ReadLines(deleted_file, merging, read_ok) ==
    IF merging /\ read_ok THEN sidecars[deleted_file] ELSE <<>>

\* Lines 244-265 for one delete file: record its path, and with merging on
\* and its sidecar there, read the sidecar (a failure is logged) and then
\* remove it unless told not to (a failure is logged).
CollectStep ==
    /\ pc = "collect"
    /\ LET deleted_file == delete_files[j]
           merging == /\ ~no_merge_existing_sidecars
                      /\ SidecarExists(deleted_file)
           deleting == merging /\ ~no_delete_duplicate_sidecar
       IN  \E read_ok \in BOOLEAN, del_ok \in BOOLEAN :
              /\ ~merging => read_ok
              /\ ~deleting => del_ok
              /\ faults' = faults + (IF read_ok THEN 0 ELSE 1)
                                  + (IF del_ok THEN 0 ELSE 1)
              /\ faults' <= MaxFaults
              /\ sidecar_contents' =
                     Recorded(sidecar_contents, deleted_file)
                         \o ReadLines(deleted_file, merging, read_ok)
              /\ sidecars' = IF deleting /\ del_ok
                             THEN WithoutSidecar(deleted_file)
                             ELSE sidecars
              /\ ops' = (IF merging
                         THEN <<Op("read", deleted_file,
                                   IF read_ok THEN "ok" ELSE "error")>>
                         ELSE <<>>)
                        \o (IF deleting
                            THEN <<Op("remove_sidecar", deleted_file,
                                      IF del_ok THEN "ok" ELSE "error")>>
                            ELSE <<>>)
              /\ touched' = (touched \/ deleting)
    /\ IF j < Len(delete_files)
       THEN pc' = "collect" /\ j' = j + 1
       ELSE pc' = "write" /\ j' = 0
    /\ UNCHANGED <<dry_run, no_merge_existing_sidecars,
                   no_delete_duplicate_sidecar, directories, total_duplicates,
                   gi, file_list, files_in_order, files, report_lines, outfile,
                   removed, pre, entries_read>>

\* sidecars with lines appended to the sidecar of p, created when absent
WithOverwritten(p, lines) ==
    [q \in DOMAIN sidecars \cup {p} |-> IF q = p THEN lines ELSE sidecars[q]]

WithAppended(p, lines) ==
    [q \in DOMAIN sidecars \cup {p} |->
        IF q = p
        THEN (IF SidecarExists(p) THEN sidecars[p] ELSE <<>>) \o lines
        ELSE sidecars[q]]

\* Lines 267-282: open the keep file's sidecar, 'a' when it exists and 'w'
\* otherwise, and write one line per collected entry.  open() may fail,
\* leaving the disk as it was, and a write may fail after some of the lines
\* reached the disk; both are logged and the loop goes on with the next group.
WriteStep ==
    /\ pc = "write"
    /\ LET mode == IF SidecarExists(keep_file) THEN "append" ELSE "create"
       IN  \/ /\ sidecars' = WithAppended(keep_file, sidecar_contents)
              /\ ops' = <<Op("write", keep_file, mode)>>
              /\ UNCHANGED faults
           \/ /\ CanFail
              /\ ops' = <<Op("write", keep_file, "open_error")>>
              /\ faults' = faults + 1
              /\ UNCHANGED sidecars
           \/ /\ CanFail
              /\ \E n \in 0..(Len(sidecar_contents) - 1) :
                    sidecars' = WithAppended(keep_file,
                                             SubSeq(sidecar_contents, 1, n))
              /\ ops' = <<Op("write", keep_file, "write_error")>>
              /\ faults' = faults + 1
    /\ touched' = TRUE
    /\ gi' = gi + 1
    /\ pc' = "loop"
    /\ UNCHANGED <<dry_run, no_merge_existing_sidecars,
                   no_delete_duplicate_sidecar, directories, total_duplicates,
                   file_list, files_in_order, j, sidecar_contents, files,
                   report_lines, outfile,
                   removed, pre, entries_read>>

\* Lines 287-299: after the last group a dry run writes the transcript to
\* the output file; a failure to write it is logged.
Finish ==
    /\ pc = "loop"
    /\ gi = total_duplicates
    /\ \/ /\ dry_run
          /\ outfile' = <<report_lines>>
          /\ UNCHANGED faults
       \/ /\ dry_run
          /\ CanFail
          /\ faults' = faults + 1
          /\ UNCHANGED outfile
       \/ /\ ~dry_run
          /\ UNCHANGED <<outfile, faults>>
    /\ pc' = "done"
    /\ ops' = <<>>
    /\ UNCHANGED <<dry_run, no_merge_existing_sidecars,
                   no_delete_duplicate_sidecar, directories, total_duplicates,
                   gi, file_list, files_in_order, j, sidecar_contents, files,
                   sidecars, report_lines, touched,
                   removed, pre, entries_read>>

Next ==
    \/ Start
    \/ RunScanner
    \/ CrashOnEntry
    \/ SkipEmptyGroup
    \/ DryRunGroup
    \/ BeginResolve
    \/ DeleteStep
    \/ CollectStep
    \/ WriteStep
    \/ Finish

Spec == Init /\ [][Next]_vars

---------------------------------------------------------------------------
(* Vocabulary of the orderer's properties *)

Normalized(fl) == [i \in 1..Len(fl) |-> NormAbs(fl[i])]

Count(x, s) == Cardinality({i \in 1..Len(s) : s[i] = x})

\* The position of the first occurrence of x in s (0 when there is none)
FirstIdx(x, s) ==
    IF InSeq(x, s)
    THEN CHOOSE i \in 1..Len(s) : s[i] = x /\ \A k \in 1..(i - 1) : s[k] # x
    ELSE 0

\* The rank of the first priority directory p lies under (0 when under none)
FirstDir(p, dirs) ==
    LET nd == Normalized(dirs)
        hits == {i \in 1..Len(nd) : StartsWithDirSep(p, nd[i])}
    IN  IF hits = {} THEN 0
        ELSE CHOOSE i \in hits : \A k \in hits : i <= k

Ordered == pc = "ordered"

\* C2: the orderer's output holds each distinct input path exactly once, so
\* its length is the number of distinct input paths.
C2_PermutationOfDistinct ==
    Ordered =>
        LET nfl == Normalized(file_list)
        IN  /\ Range(files_in_order) = Range(nfl)
            /\ \A p \in Range(nfl) : Count(p, files_in_order) = 1
            /\ Len(files_in_order) = Cardinality(Range(nfl))

\* C3 as stated: whenever P lies under priorityDirs[i] and Q under
\* priorityDirs[j] with i < j, P comes before Q in the output.
C3_UnderAnyDirectoryOrder ==
    Ordered =>
        LET nfl == Normalized(file_list)
            nd == Normalized(directories)
        IN  \A i \in 1..Len(nd), k \in 1..Len(nd) :
            \A P \in Range(nfl), Q \in Range(nfl) :
                (/\ i < k
                 /\ P # Q
                 /\ StartsWithDirSep(P, nd[i])
                 /\ StartsWithDirSep(Q, nd[k]))
                    => FirstIdx(P, files_in_order) < FirstIdx(Q, files_in_order)

\* C3 amended: when the FIRST priority directory of P ranks before the first
\* priority directory of Q, P's first occurrence comes before every
\* occurrence of Q; and the keep file (output index 0) lies under the
\* highest-ranked priority directory that contains any path of the group.
C3_FirstMatchOrder ==
    Ordered =>
        LET nfl == Normalized(file_list)
            matched == {p \in Range(nfl) : FirstDir(p, directories) # 0}
        IN  /\ \A P \in matched, Q \in matched :
                FirstDir(P, directories) < FirstDir(Q, directories)
                    => \A k \in 1..Len(files_in_order) :
                          files_in_order[k] = Q
                              => /\ FirstIdx(P, files_in_order) # 0
                                 /\ FirstIdx(P, files_in_order) < k
            /\ matched # {}
                => /\ files_in_order # <<>>
                   /\ FirstDir(files_in_order[1], directories) # 0
                   /\ \A p \in matched :
                          FirstDir(files_in_order[1], directories)
                              <= FirstDir(p, directories)

\* Two priority directories, one nested in the other, each the first match
\* of some path of the group.
C3_Witness ==
    /\ Ordered
    /\ \E P \in Range(files_in_order), Q \in Range(files_in_order) :
          /\ FirstDir(P, directories) = 1
          /\ FirstDir(Q, directories) = 2
          /\ StartsWithDirSep(Q, NormAbs(directories[1]))
             \/ StartsWithDirSep(P, NormAbs(directories[2]))

\* C4: two paths with the same first priority directory come out in their
\* input order (positions are first occurrences), every path under no
\* priority directory comes after every matched path, and the unmatched
\* paths are the input's unmatched paths in input order.
C4_Stable ==
    Ordered =>
        LET nfl == Normalized(file_list)
            Unmatched(p) == FirstDir(p, directories) = 0
        IN  /\ \A P \in Range(nfl), Q \in Range(nfl) :
                (/\ P # Q
                 /\ FirstDir(P, directories) = FirstDir(Q, directories)
                 /\ FirstIdx(P, nfl) < FirstIdx(Q, nfl))
                    => /\ FirstIdx(P, files_in_order) # 0
                       /\ FirstIdx(P, files_in_order)
                              < FirstIdx(Q, files_in_order)
            /\ \A a \in 1..Len(files_in_order), b \in 1..Len(files_in_order) :
                (Unmatched(files_in_order[a]) /\ ~Unmatched(files_in_order[b]))
                    => b < a
            /\ SelectSeq(files_in_order, Unmatched) = SelectSeq(nfl, Unmatched)

\* Two distinct paths under the same first priority directory, and an
\* unmatched path listed before them in the input.
C4_Witness ==
    /\ Ordered
    /\ LET nfl == Normalized(file_list)
       IN  /\ Len(nfl) = 3
           /\ FirstDir(nfl[1], directories) = 0
           /\ FirstDir(nfl[2], directories) # 0
           /\ FirstDir(nfl[2], directories) = FirstDir(nfl[3], directories)
           /\ nfl[2] # nfl[3]

---------------------------------------------------------------------------
(* Properties of a run of main() *)

\* The priority order the orderer gives the current group
Decision == get_directory_ordered_files(file_list, directories)

\* The transcript lines of the current group
GroupLines == SubSeq(report_lines, pre.lines + 1, Len(report_lines))

\* The paths the lines of one kind name, in transcript order
Named(lines, kind) ==
    LET sel == SelectSeq(lines, LAMBDA l : l.kind = kind)
    IN  [i \in 1..Len(sel) |-> sel[i].path]

\* The step just taken wrote the survivor's sidecar
JustWrote == ops # <<>> /\ ops[1].op = "write"

\* C1: in a normal run no delete is applied to the keep file, nor to its
\* sidecar.
C1_SurvivorNeverDeleted ==
    ~dry_run =>
        \A i \in 1..Len(ops) :
            ops[i].op \in {"remove", "remove_sidecar"}
                => ops[i].path # keep_file

\* C5: a group with fewer than two distinct paths is skipped: the disk stays
\* as it was when the group was begun and the transcript gets no line.
C5_SmallGroupSkipped ==
    Cardinality(Range(Normalized(file_list))) < 2
        => /\ files = pre.files
           /\ sidecars = pre.sidecars
           /\ Len(report_lines) = pre.lines

\* C6: a dry run leaves every data file and every sidecar as it is, creates
\* no sidecar, and makes no mutating filesystem call on them.
C6_DryRunLeavesDiskUnchanged ==
    [][dry_run => /\ files' = files
                  /\ sidecars' = sidecars
                  /\ ~touched']_vars

\* A finished dry run over two groups that reported a victim and the merge
\* and deletion of a victim's sidecar, and wrote its report.
C6_Witness ==
    /\ dry_run
    /\ pc = "done"
    /\ gi = 2
    /\ outfile = <<report_lines>>
    /\ Named(report_lines, "would_delete") # <<>>
    /\ Named(report_lines, "would_delete_sidecar") # <<>>
    /\ sidecars # <<>>

\* C7: the transcript of a dry run names, per group, the keep file and the
\* delete files in the order the orderer gives for that group's paths and
\* the priority directories; a normal run calls os.remove on exactly those
\* delete files in that order and writes the sidecar of that keep file.  The
\* order is a function of the group's paths and the directories alone, so
\* both runs decide alike on the same report, whatever the disk holds.
C7_SameDecision ==
    LET decision == Decision
    IN  /\ (dry_run /\ GroupLines # <<>>)
              => /\ Named(GroupLines, "would_keep") = <<decision[1]>>
                 /\ Named(GroupLines, "would_delete") = Tail(decision)
        /\ (~dry_run /\ pc \in {"delete", "collect", "write"})
              => /\ decision # <<>>
                 /\ removed = SubSeq(Tail(decision), 1, Len(removed))
                 /\ pc \in {"collect", "write"} => removed = Tail(decision)
        /\ (~dry_run /\ JustWrote)
              => /\ ops[1].path = decision[1]
                 /\ removed = Tail(decision)

\* A dry run has just reported a group with a keep file and two victims.
C7_Witness ==
    /\ dry_run
    /\ GroupLines # <<>>
    /\ Len(Named(GroupLines, "would_delete")) = 2
    /\ Cardinality(Range(files_in_order)) = 3

\* C8: when the run ends on an error (sys.exit(1) or an uncaught
\* exception), no mutating filesystem call has been made.
C8_AbortBeforeMutation ==
    pc \in {"exit1", "crashed"} => ~touched

\* C9: once a group has been processed, the run does not end before every
\* group of the report has been processed.
C9_EveryGroupProcessed ==
    (pc \in {"done", "crashed", "exit0", "exit1"} /\ gi >= 1)
        => gi = total_duplicates

\* The lines the collection loop gathers for delete files dfs when the
\* victim sidecars on disk are S: each file's path, then the lines of its
\* sidecar if it has one at its turn; a merged sidecar is removed when
\* victim sidecars are deleted.
RECURSIVE ExpectedLines(_, _)
ExpectedLines(dfs, S) ==
    IF dfs = <<>> THEN <<>>
    ELSE LET f == Head(dfs)
             has == f \in DOMAIN S
         IN  <<f>>
             \o (IF has /\ ~no_merge_existing_sidecars THEN S[f] ELSE <<>>)
             \o ExpectedLines(Tail(dfs),
                    IF has /\ ~no_merge_existing_sidecars
                           /\ ~no_delete_duplicate_sidecar
                    THEN [q \in DOMAIN S \ {f} |-> S[q]]
                    ELSE S)

\* C10: in a normal run with merging on and no I/O failure in the group, the
\* write of the survivor's sidecar appends exactly, for each delete file in
\* order, its path and then the lines of its victim sidecar, and changes no
\* other sidecar; with no survivor sidecar before and a single victim without
\* a sidecar, the survivor's sidecar then holds the victim's path alone.
C10_AppendedLines ==
    [][(/\ pc = "write"
        /\ pc' = "loop"
        /\ faults' = pre.faults)
          => /\ ~no_merge_existing_sidecars
                => sidecars' =
                     [q \in DOMAIN sidecars \cup {keep_file} |->
                        IF q = keep_file
                        THEN (IF SidecarExists(keep_file)
                              THEN sidecars[keep_file] ELSE <<>>)
                             \o ExpectedLines(delete_files, pre.sidecars)
                        ELSE sidecars[q]]
             /\ (/\ keep_file \notin DOMAIN pre.sidecars
                 /\ Len(delete_files) = 1
                 /\ delete_files[1] \notin DOMAIN pre.sidecars)
                   => sidecars'[keep_file] = <<delete_files[1]>>]_vars

\* A fault-free group with merging on has been resolved: the survivor had a
\* sidecar, two distinct victims were deleted, the first with a sidecar and
\* the second without one.
C10_Witness ==
    /\ ~dry_run
    /\ ~no_merge_existing_sidecars
    /\ JustWrote
    /\ faults = pre.faults
    /\ Len(files_in_order) = 3
    /\ Cardinality(Range(files_in_order)) = 3
    /\ keep_file \in DOMAIN pre.sidecars
    /\ files_in_order[2] \in DOMAIN pre.sidecars
    /\ files_in_order[3] \notin DOMAIN pre.sidecars
    /\ sidecars[keep_file] =
           pre.sidecars[keep_file]
               \o <<files_in_order[2]>> \o pre.sidecars[files_in_order[2]]
               \o <<files_in_order[3]>>

---------------------------------------------------------------------------
(* Properties of the sidecar bookkeeping of a resolved group *)

\* sub occurs in s as a run of consecutive lines
Occurs(sub, s) ==
    \E i \in 0..Len(s) :
        /\ i + Len(sub) <= Len(s)
        /\ SubSeq(s, i + 1, i + Len(sub)) = sub

IsPrefix(a, b) == Len(a) <= Len(b) /\ SubSeq(b, 1, Len(a)) = a

\* The step just taken wrote every collected line to the survivor's sidecar
WroteAll == JustWrote /\ ops[1].result \in {"append", "create"}

\* No I/O operation has failed since the current group was begun
NoFailureInGroup == faults = pre.faults

\* C11: in a normal run with merging on and victim sidecars retained, once a
\* group has been resolved without an I/O failure, every sidecar of a delete
\* file that was there when the group was begun is still there with the same
\* lines, and those lines are in the survivor's sidecar.
C11_VictimSidecarsRetained ==
    (/\ ~dry_run
     /\ ~no_merge_existing_sidecars
     /\ no_delete_duplicate_sidecar
     /\ WroteAll
     /\ NoFailureInGroup)
        => \A v \in Range(delete_files) :
              v \in DOMAIN pre.sidecars
                  => /\ v \in DOMAIN sidecars
                     /\ sidecars[v] = pre.sidecars[v]
                     /\ keep_file \in DOMAIN sidecars
                     /\ Occurs(<<v>> \o pre.sidecars[v], sidecars[keep_file])

\* C12: a sidecar of the keep file that was there when the group was begun
\* stays there, and its lines stay, in order, at the head of the sidecar:
\* during and after the resolution it is neither removed, truncated nor
\* replaced.
C12_SurvivorSidecarAppendOnly ==
    (/\ ~dry_run
     /\ files_in_order # <<>>
     /\ keep_file \in DOMAIN pre.sidecars)
        => /\ keep_file \in DOMAIN sidecars
           /\ IsPrefix(pre.sidecars[keep_file], sidecars[keep_file])

\* C13: in a normal run, whatever os.remove did to the delete files
\* (removed, not found, permission denied, another error), the collection
\* loop records the path of each delete file, and when its sidecar is there
\* and merging is on it reads the sidecar, takes its lines when the read
\* succeeds, and removes the sidecar unless victim sidecars are retained;
\* the write then appends every collected line, the path of every delete
\* file among them, to the survivor's sidecar.
C13_RecordedWhateverDeletion ==
    [][/\ (~dry_run /\ pc = "collect")
          => LET deleted_file == delete_files[j]
                 merging == /\ ~no_merge_existing_sidecars
                            /\ SidecarExists(deleted_file)
             IN  /\ IsPrefix(Append(sidecar_contents, deleted_file),
                             sidecar_contents')
                 /\ merging
                      => /\ ops' # <<>>
                         /\ ops'[1] \in {Op("read", deleted_file, "ok"),
                                         Op("read", deleted_file, "error")}
                         /\ ops'[1].result = "ok"
                              => sidecar_contents' =
                                     Append(sidecar_contents, deleted_file)
                                         \o sidecars[deleted_file]
                         /\ ~no_delete_duplicate_sidecar
                              => /\ Len(ops') = 2
                                 /\ ops'[2].op = "remove_sidecar"
                                 /\ ops'[2].path = deleted_file
                                 /\ ops'[2].result = "ok"
                                      => deleted_file \notin DOMAIN sidecars'
       /\ (~dry_run /\ pc = "write" /\ WroteAll')
          => /\ sidecars'[keep_file] =
                    (IF SidecarExists(keep_file)
                     THEN sidecars[keep_file] ELSE <<>>) \o sidecar_contents
             /\ \A k \in 1..Len(delete_files) :
                    Count(delete_files[k], sidecar_contents)
                        >= Count(delete_files[k], delete_files)]_vars

\* A group has been resolved in which os.remove failed on a delete file that
\* had a sidecar: the file is still there, its sidecar is gone, and its path
\* and its sidecar's lines are in the survivor's sidecar.
C13_Witness ==
    /\ ~dry_run
    /\ WroteAll
    /\ faults = pre.faults + 1
    /\ \E v \in Range(delete_files) :
          /\ v # keep_file
          /\ v \in files
          /\ v \in DOMAIN pre.sidecars
          /\ v \notin DOMAIN sidecars
          /\ Occurs(<<v>> \o pre.sidecars[v], sidecars[keep_file])

\* C14: in a normal run with merging on and victim sidecars deleted, when
\* the read of a victim sidecar fails, the removal of that sidecar is still
\* attempted, the collected lines gain the victim's path and none of its
\* sidecar's lines, the loop goes on, and the write that follows puts the
\* lines collected from all the victims in the survivor's sidecar.
C14_ReadFailureNotFatal ==
    [][/\ (/\ ~dry_run
           /\ ~no_merge_existing_sidecars
           /\ ~no_delete_duplicate_sidecar
           /\ pc = "collect"
           /\ ops' # <<>>
           /\ ops'[1] = Op("read", delete_files[j], "error"))
          => /\ Len(ops') = 2
             /\ ops'[2].op = "remove_sidecar"
             /\ ops'[2].path = delete_files[j]
             /\ ops'[2].result = "ok"
                  => delete_files[j] \notin DOMAIN sidecars'
             /\ sidecar_contents' = Append(sidecar_contents, delete_files[j])
             /\ pc' \in {"collect", "write"}
             /\ pc' = "write" <=> j = Len(delete_files)
       /\ (~dry_run /\ pc = "write")
          => /\ ops' # <<>>
             /\ ops'[1].op = "write"
             /\ ops'[1].path = keep_file
             /\ WroteAll'
                  => sidecars'[keep_file] =
                         (IF SidecarExists(keep_file)
                          THEN sidecars[keep_file] ELSE <<>>)
                             \o sidecar_contents]_vars

\* A group with two victims that both had sidecars has been resolved with
\* merging on and victim sidecars deleted, and the read of one of the two
\* sidecars failed: both sidecars are gone, the survivor's sidecar names both
\* victims and holds the lines of the sidecar that was read and not one
\* line of the other.
C14_Witness ==
    /\ ~dry_run
    /\ ~no_merge_existing_sidecars
    /\ ~no_delete_duplicate_sidecar
    /\ WroteAll
    /\ \E v \in Range(delete_files), w \in Range(delete_files) :
          /\ v # w
          /\ v # keep_file
          /\ w # keep_file
          /\ {v, w} \subseteq DOMAIN pre.sidecars
          /\ {v, w} \cap DOMAIN sidecars = {}
          /\ InSeq(v, sidecars[keep_file])
          /\ \A i \in 1..Len(pre.sidecars[v]) :
                 ~InSeq(pre.sidecars[v][i], sidecars[keep_file])
          /\ Occurs(<<w>> \o pre.sidecars[w], sidecars[keep_file])

\* The kinds of transcript line that mention a victim sidecar
SidecarLineKinds ==
    {"would_merge", "read_error", "would_delete_sidecar",
     "would_not_delete_sidecar"}

\* C15: with merging off, whatever the other options, no victim sidecar is
\* read or removed and no transcript line mentions one; and once a normal
\* run has written the survivor's sidecar, that sidecar has gained exactly
\* the delete files' paths, in order, and every sidecar of a delete file is
\* on disk as it was when the group was begun.
C15_NoMergeLeavesVictimSidecars ==
    no_merge_existing_sidecars
        => /\ \A i \in 1..Len(ops) :
                  ops[i].op \notin {"read", "remove_sidecar"}
           /\ \A i \in 1..Len(report_lines) :
                  report_lines[i].kind \notin SidecarLineKinds
           /\ (~dry_run /\ WroteAll)
                  => /\ sidecars[keep_file] =
                            (IF keep_file \in DOMAIN pre.sidecars
                             THEN pre.sidecars[keep_file] ELSE <<>>)
                                \o delete_files
                     /\ \A v \in Range(delete_files) :
                            v \in DOMAIN pre.sidecars
                                => /\ v \in DOMAIN sidecars
                                   /\ sidecars[v] = pre.sidecars[v]

---------------------------------------------------------------------------
(* Running the tool again on the same report *)

\* A confirmed normal run whose scanner has reported one group
InitRerun ==
    /\ pc = "loop"
    /\ dry_run = FALSE
    /\ no_merge_existing_sidecars \in BOOLEAN
    /\ no_delete_duplicate_sidecar \in BOOLEAN
    /\ directories \in SeqsUpTo(MainDirs, MaxDirs) \ {<<>>}
    /\ total_duplicates = 1
    /\ gi = 0
    /\ file_list = <<>>
    /\ files_in_order = <<>>
    /\ j = 0
    /\ sidecar_contents = <<>>
    /\ files = DataPaths
    /\ \E S \in SUBSET DataPaths : sidecars = [p \in S |-> OldLines(p)]
    /\ report_lines = <<>>
    /\ outfile = <<>>
    /\ faults = 0
    /\ touched = FALSE
    /\ ops = <<>>
    /\ removed = <<>>
    /\ entries_read = 0
    /\ pre = Snapshot

\* Lines 45-194 of another invocation with the same options, confirmed, on
\* the disk the finished run left, the scanner's report being the same one
\* group: the group's paths are read and ordered again.
RunAgain ==
    /\ pc = "done"
    /\ NormalRun
    /\ total_duplicates = 1
    /\ files_in_order # <<>>
    /\ entries_read + Len(file_list) <= MaxEntries
    /\ entries_read' = entries_read + Len(file_list)
    /\ files_in_order' = get_directory_ordered_files(file_list, directories)
    /\ IF Len(files_in_order') > 1
       THEN pc' = "delete" /\ j' = 1
       ELSE pc' = "write" /\ j' = 0
    /\ gi' = 0
    /\ sidecar_contents' = <<>>
    /\ ops' = <<>>
    /\ removed' = <<>>
    /\ pre' = Snapshot
    /\ UNCHANGED <<dry_run, no_merge_existing_sidecars,
                   no_delete_duplicate_sidecar, directories, total_duplicates,
                   file_list, files, sidecars, report_lines, outfile, faults,
                   touched>>

NextRerun ==
    \/ BeginResolve
    \/ DeleteStep
    \/ CollectStep
    \/ WriteStep
    \/ Finish
    \/ RunAgain

SpecRerun == InitRerun /\ [][NextRerun]_vars

\* The runs that have read the group so far: each reads its fileList once
RunsStarted ==
    CHOOSE k \in 0..MaxEntries : k * Len(file_list) = entries_read

\* C16: when the same group has been resolved by k normal runs in a row with
\* no I/O failure, the keep file is still there, the delete files are gone,
\* and the path of each delete file occurs k times in the survivor's sidecar.
C16_RerunAppendsAgain ==
    (WroteAll /\ faults = 0)
        => /\ keep_file \in files
           /\ \A p \in Range(delete_files) :
                  /\ p \notin files
                  /\ Count(p, sidecars[keep_file]) = RunsStarted

---------------------------------------------------------------------------
(* Provenance across resolutions *)

\* C17: once a normal run has written the survivor's sidecar, that sidecar
\* lists every delete file; and with merging on and no I/O failure in the
\* group, for every delete file A other than the keep file whose sidecar was
\* there when the group was begun (listing what earlier resolutions deleted
\* in favour of A), the survivor's sidecar lists A followed by the lines of
\* A's sidecar, and unless victim sidecars are retained A's sidecar is gone.
C17_ChainsInherited ==
    /\ (~dry_run /\ WroteAll)
          => \A B \in Range(delete_files) : InSeq(B, sidecars[keep_file])
    /\ (~dry_run /\ ~no_merge_existing_sidecars /\ WroteAll
          /\ NoFailureInGroup)
          => \A A \in Range(delete_files) :
                (A # keep_file /\ A \in DOMAIN pre.sidecars)
                    => /\ Occurs(<<A>> \o pre.sidecars[A], sidecars[keep_file])
                       /\ ~no_delete_duplicate_sidecar
                            => A \notin DOMAIN sidecars

\* A first group kept A and deleted B, creating A's sidecar with the line
\* B; a second group has kept a third file C and deleted A: C's sidecar
\* lists A and then B, and A's sidecar is gone.
C17_Witness ==
    /\ ~dry_run
    /\ ~no_merge_existing_sidecars
    /\ ~no_delete_duplicate_sidecar
    /\ WroteAll
    /\ gi = 2
    /\ faults = 0
    /\ \E A \in Range(delete_files), B \in DataPaths :
          /\ Cardinality({A, B, keep_file}) = 3
          /\ A \in DOMAIN pre.sidecars
          /\ pre.sidecars[A] = <<B>>
          /\ B \notin pre.files
          /\ A \notin DOMAIN sidecars
          /\ Occurs(<<A, B>>, sidecars[keep_file])

\* The delete files whose sidecars the collection loop of a normal run
\* merges, in order, for delete files dfs when the victim sidecars on disk
\* are S: a merged sidecar is removed when victim sidecars are deleted.
RECURSIVE ExpectedMerged(_, _)
ExpectedMerged(dfs, S) ==
    IF dfs = <<>> THEN <<>>
    ELSE LET f == Head(dfs)
             has == f \in DOMAIN S /\ ~no_merge_existing_sidecars
         IN  (IF has THEN <<f>> ELSE <<>>)
             \o ExpectedMerged(Tail(dfs),
                    IF has /\ ~no_delete_duplicate_sidecar
                    THEN [q \in DOMAIN S \ {f} |-> S[q]]
                    ELSE S)

\* C18: with no I/O failure in the group, a normal run collects for the
\* survivor's sidecar, for each delete file in order, its path and the lines
\* of its sidecar if that is there at its turn, and removes the sidecars it
\* merged unless they are retained; the transcript of a dry run on the same
\* group and disk lists exactly those lines as the sidecar's contents, one
\* would-merge line per sidecar the normal run merges, and one
\* would-delete-sidecar line per sidecar the normal run removes, in order.
C18_TranscriptMirrorsSidecarWork ==
    /\ (~dry_run /\ pc = "write" /\ NoFailureInGroup)
          => /\ sidecar_contents = ExpectedLines(delete_files, pre.sidecars)
             /\ DOMAIN pre.sidecars \ DOMAIN sidecars =
                    IF no_delete_duplicate_sidecar THEN {}
                    ELSE Range(ExpectedMerged(delete_files, pre.sidecars))
    /\ (dry_run /\ GroupLines # <<>> /\ NoFailureInGroup)
          => /\ Named(GroupLines, "content") =
                    ExpectedLines(delete_files, sidecars)
             /\ Named(GroupLines, "would_merge") =
                    ExpectedMerged(delete_files, sidecars)
             /\ Named(GroupLines, "would_delete_sidecar") =
                    IF no_delete_duplicate_sidecar THEN <<>>
                    ELSE ExpectedMerged(delete_files, sidecars)

\* C19: a step removes no data file but the delete file at hand, creates
\* none, removes no sidecar but that of the delete file at hand, and writes
\* no sidecar but the keep file's; so while and after a group is resolved,
\* every data file and sidecar of a path that is not in the group is as it
\* was when the group was begun.
C19_OnlyGroupPathsMutated ==
    [][/\ files' \subseteq files
       /\ files' # files
            => /\ pc = "delete"
               /\ files \ files' = {delete_files[j]}
       /\ sidecars' # sidecars
            => /\ pc \in {"collect", "write"}
               /\ \A q \in DOMAIN sidecars \cup DOMAIN sidecars' :
                     \/ /\ q \in DOMAIN sidecars \cap DOMAIN sidecars'
                        /\ sidecars'[q] = sidecars[q]
                     \/ /\ pc = "collect"
                        /\ q = delete_files[j]
                        /\ q \notin DOMAIN sidecars'
                     \/ /\ pc = "write"
                        /\ q = keep_file
                        /\ q \in DOMAIN sidecars'
       /\ \A q \in DataPaths \ Range(files_in_order') :
             /\ q \in files' <=> q \in pre'.files
             /\ q \in DOMAIN sidecars' <=> q \in DOMAIN pre'.sidecars
             /\ q \in DOMAIN sidecars' => sidecars'[q] = pre'.sidecars[q]]_vars

\* A group of two files has been resolved: the victim and its sidecar are
\* gone, the survivor's sidecar has been written, and the file outside the
\* group and its sidecar are as they were.
C19_Witness ==
    /\ ~dry_run
    /\ WroteAll
    /\ Len(files_in_order) = 2
    /\ delete_files[1] # keep_file
    /\ delete_files[1] \in pre.files \ files
    /\ delete_files[1] \in DOMAIN pre.sidecars \ DOMAIN sidecars
    /\ keep_file \in DOMAIN sidecars \ DOMAIN pre.sidecars
    /\ \E q \in DataPaths \ Range(files_in_order) :
          /\ q \in files
          /\ q \in DOMAIN sidecars
          /\ sidecars[q] = OldLines(q)

\* The lines held by the sidecars S
LinesOnDisk(S) == UNION {Range(S[q]) : q \in DOMAIN S}

\* C20: in a normal run with merging on, as long as no I/O operation has
\* failed in the group: while the group is being resolved, every sidecar
\* that was there when it was begun is either still there unchanged or has
\* been removed with its lines already among the lines collected for the
\* survivor's sidecar; and once the survivor's sidecar has been written,
\* every line that was in a sidecar when the group was begun is in a sidecar
\* on disk, the lines of each victim sidecar being in the survivor's sidecar
\* and, when victim sidecars are retained, in the victim sidecar as well.
C20_NoProvenanceLost ==
    /\ (/\ ~dry_run
         /\ ~no_merge_existing_sidecars
         /\ NoFailureInGroup
         /\ pc \in {"delete", "collect", "write"})
          => \A q \in DOMAIN pre.sidecars :
                IF q \in DOMAIN sidecars
                THEN sidecars[q] = pre.sidecars[q]
                ELSE /\ ~no_delete_duplicate_sidecar
                     /\ InSeq(q, delete_files)
                     /\ Occurs(<<q>> \o pre.sidecars[q], sidecar_contents)
    /\ (/\ ~dry_run
         /\ ~no_merge_existing_sidecars
         /\ NoFailureInGroup
         /\ JustWrote)
          => /\ LinesOnDisk(pre.sidecars) \subseteq LinesOnDisk(sidecars)
             /\ \A v \in Range(delete_files) :
                    v \in DOMAIN pre.sidecars
                        => /\ Range(pre.sidecars[v])
                                 \subseteq Range(sidecars[keep_file])
                           /\ no_delete_duplicate_sidecar
                                => /\ v \in DOMAIN sidecars
                                   /\ Range(pre.sidecars[v])
                                         \subseteq Range(sidecars[v])

\* A second group has been resolved without any I/O failure in the run, with
\* merging on and victim sidecars deleted: the sidecar of its victim is
\* gone, the survivor had a sidecar of its own, and every line the sidecars
\* held when the group was begun, those written by the first group among
\* them, is still in a sidecar.
C20_Witness ==
    /\ ~dry_run
    /\ ~no_merge_existing_sidecars
    /\ ~no_delete_duplicate_sidecar
    /\ JustWrote
    /\ gi = 2
    /\ faults = 0
    /\ keep_file \in DOMAIN pre.sidecars
    /\ \E v \in Range(delete_files) :
          /\ v # keep_file
          /\ v \in DOMAIN pre.sidecars \ DOMAIN sidecars
          /\ Len(pre.sidecars[v]) > 2
    /\ LinesOnDisk(pre.sidecars) # {}
    /\ LinesOnDisk(pre.sidecars) \subseteq LinesOnDisk(sidecars)

====
